---- MODULE Spec2Model ----
(***************************************************************************)
(* A model of MyGroupCache (geecache): the byte-accounted LRU cache        *)
(* (geecache/lru/lru.go), the singleflight coalescer and the Group         *)
(* read-through coordinator (geecache/singleflight/singleflight.go, which  *)
(* holds singleflight.go, geecache.go and peers.go), the consistent-hash   *)
(* ring (unnamed/part_000) and the HTTPPool peer picker (geecache/http.go).*)
(*                                                                         *)
(* Strings are modelled as sequences of small numbers (their bytes), so    *)
(* that len(key) and value.Len() are Len of the sequence.                  *)
(***************************************************************************)
EXTENDS Integers, Sequences, FiniteSets, TLC

(***************************************************************************)
(* Bounds of the model.                                                    *)
(***************************************************************************)
\* largest positive byte budget tried for lru.Cache.maxBytes
MaxBudget == 5
\* longest value (in bytes) handed to lru.Cache.Add
MaxValLen == 2

\* number of concurrent callers (goroutines)
NumProcs == 2
\* virtual nodes per peer (defaultReplicas, scaled down) and the largest hash
Replicas == 2
MaxHash == 2

\* the absent key / nil byte slice / empty string
Nil == <<>>

\* the callers, and the call objects somebody can point to at one time: one per
\* caller and one left in the map per key
Procs == 1 .. NumProcs
Handles == 1 .. (NumProcs + 2)
\* names for the executions of fn somebody still refers to
Execs == 1 .. (2 * NumProcs + 2)

\* keys handed to Do and to Group.Get
Keys == {<<1>>, <<2>>}

\* what a call of fn, of the loader or of a peer can return: bytes, or an error
NoErr == "nil"
OkResults == {[val |-> <<7>>, err |-> NoErr], [val |-> <<8>>, err |-> NoErr]}
NoResult == [val |-> Nil, err |-> "none"]

\* history: no bytes recorded (no byte is negative, so it is told apart from
\* every byte sequence, the empty one included)
NoBytes == <<-1>>
\* history of a Get that has done nothing yet
NoHist == [src |-> "none", peerFailed |-> FALSE, loaderCalls |-> 0,
           loaderOut |-> NoResult, touched |-> FALSE, start |-> "overlap", sawLoader |-> FALSE]

\* keys handed to the LRU: two of one byte, one of two bytes
LKeys == {<<1>>, <<2>>, <<3, 3>>}

RECURSIVE SeqsUpTo(_, _)
\* every byte sequence over S of length at most n
SeqsUpTo(S, n) ==
    IF n = 0 THEN {<<>>}
    ELSE LET shorter == SeqsUpTo(S, n - 1)
         IN  shorter \cup {Append(s, b) : s \in {t \in shorter : Len(t) = n - 1}, b \in S}

\* values handed to the LRU (lru.Value: anything with a Len())
LValues == SeqsUpTo({7}, MaxValLen)

\* budgets handed to lru.New: negative, zero (unbounded) and positive
Budgets == (-1) .. MaxBudget

VARIABLES
    \* ---- lru.Cache (also Group.mainCache) ----
    lru,        \* [ll, cache, nbytes]: recency list (front first), map keys, usage
    maxBytes,   \* lru.Cache.maxBytes
    lpc,        \* position of the caller inside Cache.Add: "idle" or "evict"
    lastOp,     \* the public LRU method that ran last, its key and outcome
    touched,    \* history: present keys by last found-Get / Add, oldest first
    insOrder,   \* history: present keys by insertion, oldest first
    lastEvict   \* history: the entry RemoveOldest removed last (the OnEvicted call)

VARIABLES
    \* ---- singleflight.Group and the callers of Do ----
    pc,         \* pc[p]: where caller p stands
    key,        \* key[p]: the key caller p asked for
    mu,         \* singleflight.Group.mu: 0 when free, else the caller holding it
    mNil,       \* singleflight.Group.m is still nil
    m,          \* singleflight.Group.m: m[k] is the call bound to k, 0 when none
    wg,         \* wg[h]: the WaitGroup counter of call h
    hval,       \* hval[h]: call.val
    herr,       \* herr[h]: call.err
    callOf,     \* callOf[p]: the call caller p holds a pointer to (its c), 0 when none
    ret,        \* ret[p]: the (value, error) pair Do returned to caller p
    \* ---- history of the executions of fn ----
    hexecs,     \* hexecs[h]: the executions of fn made for call h
    execRes,    \* execRes[e]: what execution e of fn returned
    served,     \* served[p]: the execution whose result caller p returns
    joined,     \* joined[p]: the execution of fn for key[p] that was running when p entered Do
    entry,      \* entry[p]: how p entered Do: "overlap" with another caller inside Do on the
                \* key, "after" a Do on the key returned and with none inside, or "first"
    completed   \* the keys a Do(k, fn) called on its own has returned for

VARIABLES
    \* ---- geecache.Group and the callers of Group.Get ----
    peersReg,   \* g.peers # nil: RegisterPeers has been called
    lvalue,     \* lvalue[p]: the named result `value` of caller p's load
    lerr,       \* lerr[p]: the named result `err` of caller p's load
    getRet,     \* getRet[p]: the (ByteView, error) pair Group.Get returned to caller p
    \* ---- history of the calls of Group.Get ----
    gh,         \* gh[p]: what caller p's current Get has done
    lastFail,   \* the key of the Get that returned last, if the loader's error ended it
                \* and no Get has begun since
    coh,        \* coh[k]: the bytes a Get(k) returned from the local loader while k stays cached
    later       \* later[p]: coh[key] when caller p's Get began, while k stays cached

lruVars == <<lru, maxBytes, lpc, lastOp, touched, insOrder, lastEvict>>

grpVars == <<peersReg, lvalue, lerr, getRet>>

grpHist == <<gh, lastFail, coh, later>>

sfVars == <<pc, key, mu, mNil, m, wg, hval, herr, callOf, ret>>

sfHist == <<hexecs, execRes, served, joined, entry, completed>>

\* the HTTPPool of one node and its consistent-hash ring
VARIABLES
    self,        \* p.self
    hashFn,      \* the Hash the ring was given: any function of the strings hashed
    peers,       \* p.peers: the *consistenthash.Map, nil until Set
    httpGetters, \* p.httpGetters: the client registered for each peer
    pickRes,     \* how the last PickPeer ended, and what it returned
    ringRes,     \* a Map used on its own: what the last Map.Get was asked and returned
    members,     \* history: the peers added to the Map and not removed since
    snap,        \* history: the Map as it was before the last Add, of one peer
    trip,        \* history: the outcome of an Add(p) followed by Remove(p)
    groups,      \* the registry: the names NewGroup has registered a Group under
    serveRes     \* how the last ServeHTTP ended, and what it wrote to the response

ringHist == <<ringRes, members, snap, trip>>

httpVars == <<groups, serveRes>>

poolVars == <<self, hashFn, peers, httpGetters, pickRes, ringHist, httpVars>>

vars == <<lruVars, sfVars, sfHist, grpVars, grpHist, poolVars>>

(***************************************************************************)
(* consistenthash: Map.Add, Map.Get; http.go: NewHTTPool, Set, PickPeer    *)
(***************************************************************************)

\* the peer addresses handed to Set ("A", "B") and to NewHTTPool
PeerNames == {<<65>>, <<66>>}
PeerLists == {<<>>, <<<<65>>>>, <<<<66>>>>, <<<<65>>, <<66>>>>, <<<<66>>, <<65>>>>}
\* the peers handed to a Map used on its own
RingPeers == PeerNames

\* defaultBasePath, "/_geecache/"
defaultBasePath == <<47, 95, 103, 101, 101, 99, 97, 99, 104, 101, 47>>

\* strconv.Itoa of a natural number, in decimal digits
RECURSIVE Itoa(_)
Itoa(i) == IF i < 10 THEN <<48 + i>> ELSE Itoa(i \div 10) \o <<48 + (i % 10)>>

\* the name of virtual node i of a peer, line 47
VirtualName(i, peer) == Itoa(i) \o peer

\* every string the ring hashes: keys, and the virtual nodes of the peers
HashDomain == Keys \cup {VirtualName(i, peer) : i \in 0 .. (Replicas - 1), peer \in RingPeers}

\* a nil *Map, and the Map consistenthash.New returns, lines 26-37; a hash
\* hashMap has no entry for is bound to the zero string
NilMap == [isNil |-> TRUE, keys |-> <<>>, hashMap |-> [h \in 0 .. MaxHash |-> Nil]]
NewMap == [isNil |-> FALSE, keys |-> <<>>, hashMap |-> [h \in 0 .. MaxHash |-> Nil]]

\* a nil *httpGetter, and the client of a peer, line 159
NilGetter == [isNil |-> TRUE, baseURL |-> Nil]
Getter(peer) == [isNil |-> FALSE, baseURL |-> peer \o defaultBasePath]

\* sort.Ints
RECURSIVE InsertSorted(_, _)
InsertSorted(s, x) ==
    IF s = <<>> THEN <<x>>
    ELSE IF x <= Head(s) THEN <<x>> \o s
    ELSE <<Head(s)>> \o InsertSorted(Tail(s), x)

RECURSIVE SortInts(_)
SortInts(s) == IF s = <<>> THEN <<>> ELSE InsertSorted(SortInts(Tail(s)), Head(s))

\* the inner loop of Map.Add, lines 45-52, from replica i on
RECURSIVE AddReplicas(_, _, _)
AddReplicas(mp, peer, i) ==
    IF i >= Replicas THEN mp
    ELSE LET hash == hashFn[VirtualName(i, peer)]
         IN  AddReplicas([mp EXCEPT !.keys = Append(@, hash), !.hashMap[hash] = peer],
                         peer, i + 1)

\* the outer loop of Map.Add, lines 44-53
RECURSIVE AddPeers(_, _)
AddPeers(mp, ps) ==
    IF ps = <<>> THEN mp
    ELSE AddPeers(AddReplicas(mp, Head(ps), 0), Tail(ps))

\* Map.Add, lines 41-56
MapAdd(mp, ps) == [AddPeers(mp, ps) EXCEPT !.keys = SortInts(@)]

\* sort.Search over m.keys, lines 70-72: the least index (from 0) whose key is
\* at least hash, or the length
Search(ks, hash) ==
    LET hits == {i \in 0 .. (Len(ks) - 1) : ks[i + 1] >= hash}
    IN  IF hits = {} THEN Len(ks) ELSE CHOOSE i \in hits : \A j \in hits : i <= j

\* Map.Get on a Map that is not nil, lines 60-81: the first virtual node at
\* or after the key's hash, the ring wrapping around
MapGet_NoWrap(mp, k) ==
    IF Len(mp.keys) = 0 THEN Nil
    ELSE LET idx == Search(mp.keys, hashFn[k])
         IN  mp.hashMap[mp.keys[IF idx = Len(mp.keys) THEN idx ELSE idx + 1]]

MapGet(mp, k) ==
    IF Len(mp.keys) = 0 THEN Nil
    ELSE LET idx == Search(mp.keys, hashFn[k])
         IN  mp.hashMap[mp.keys[(idx % Len(mp.keys)) + 1]]

NoPick == [out |-> "none", key |-> Nil, owner |-> Nil, client |-> NilGetter, found |-> FALSE]

\* p.Set(peers...), lines 150-162
Set(ps) ==
    /\ peers' = MapAdd(NewMap, ps)
    /\ httpGetters' = [x \in PeerNames |->
                          IF \E i \in 1 .. Len(ps) : ps[i] = x THEN Getter(x) ELSE NilGetter]
    /\ pickRes' = NoPick
    /\ UNCHANGED <<self, hashFn, ringHist>>
    /\ UNCHANGED <<lruVars, sfVars, sfHist, grpVars, grpHist>>
    /\ UNCHANGED httpVars

\* p.PickPeer(key), lines 166-175: p.peers.Get(key) reads m.keys, line 61,
\* which on a nil Map is a nil pointer dereference, and PickPeer panics
PickPeer(k) ==
    /\ pickRes' =
          IF peers.isNil
          THEN [NoPick EXCEPT !.out = "panic", !.key = k]
          ELSE LET peer == MapGet(peers, k)
               IN  IF peer # Nil /\ peer # self
                   THEN [out |-> "return", key |-> k, owner |-> peer,
                         client |-> httpGetters[peer], found |-> TRUE]
                   ELSE [out |-> "return", key |-> k, owner |-> peer,
                         client |-> NilGetter, found |-> FALSE]
    /\ UNCHANGED <<self, hashFn, peers, httpGetters, ringHist>>
    /\ UNCHANGED <<lruVars, sfVars, sfHist, grpVars, grpHist>>
    /\ UNCHANGED httpVars

\* m.keys with the element at index idx (from 0) spliced out, line 88
SpliceOut_Next(ks, idx) == SubSeq(ks, 1, idx + 1) \o SubSeq(ks, idx + 3, Len(ks))

SpliceOut(ks, idx) == SubSeq(ks, 1, idx) \o SubSeq(ks, idx + 2, Len(ks))

\* the loop of Map.Remove, lines 85-90, from replica i on: the slice
\* expression m.keys[idx+1:] panics when idx is the length of m.keys
RECURSIVE RemoveReplicas(_, _, _)
RemoveReplicas(mp, peer, i) ==
    IF i >= Replicas THEN [map |-> mp, panic |-> FALSE]
    ELSE LET hash == hashFn[VirtualName(i, peer)]
             idx == Search(mp.keys, hash)
         IN  IF idx + 1 > Len(mp.keys)
             THEN [map |-> mp, panic |-> TRUE]
             ELSE RemoveReplicas([mp EXCEPT !.keys = SpliceOut(@, idx), !.hashMap[hash] = Nil],
                                 peer, i + 1)

\* Map.Remove, lines 84-91
MapRemove(mp, peer) == RemoveReplicas(mp, peer, 0)

\* the hashes on the ring
RingHashes(mp) == {mp.keys[i] : i \in 1 .. Len(mp.keys)}

\* the lists of peers one Add is handed: distinct peers, none of them in the Map
\* (adding a peer twice is not supported)
RingLists == {<<x>> : x \in RingPeers} \cup {ps \in RingPeers \X RingPeers : ps[1] # ps[2]}

NoRingRes == [out |-> "none", key |-> Nil, peer |-> Nil]
NoSnap == [peer |-> Nil, map |-> NewMap, collided |-> FALSE]
NoTrip == [peer |-> Nil, sameKeys |-> TRUE, sameMap |-> TRUE, sameGet |-> TRUE, collided |-> FALSE]

\* m.Add(ps...) on a Map used on its own
RingAdd(ps) ==
    /\ \A i \in 1 .. Len(ps) : ps[i] \notin members
    /\ peers' = MapAdd(peers, ps)
    /\ members' = members \cup {ps[i] : i \in 1 .. Len(ps)}
    /\ snap' = IF Len(ps) = 1
               THEN [peer |-> ps[1], map |-> peers,
                     collided |-> \E i \in 0 .. (Replicas - 1) :
                                     hashFn[VirtualName(i, ps[1])] \in RingHashes(peers)]
               ELSE NoSnap
    /\ trip' = NoTrip
    /\ ringRes' = NoRingRes
    /\ UNCHANGED <<self, hashFn, httpGetters, pickRes>>
    /\ UNCHANGED <<lruVars, sfVars, sfHist, grpVars, grpHist>>
    /\ UNCHANGED httpVars

\* m.Remove(peer) of a peer that is in the Map
RingRemove(peer) ==
    /\ peer \in members
    /\ LET r == MapRemove(peers, peer)
       IN  /\ peers' = r.map
           /\ ringRes' = [NoRingRes EXCEPT !.out = IF r.panic THEN "panic" ELSE "none"]
           /\ trip' = IF snap.peer = peer
                      THEN [peer |-> peer,
                            sameKeys |-> r.map.keys = snap.map.keys,
                            sameMap |-> r.map.hashMap = snap.map.hashMap,
                            sameGet |-> \A k \in Keys : MapGet(r.map, k) = MapGet(snap.map, k),
                            collided |-> snap.collided]
                      ELSE NoTrip
    /\ members' = members \ {peer}
    /\ snap' = NoSnap
    /\ UNCHANGED <<self, hashFn, httpGetters, pickRes>>
    /\ UNCHANGED <<lruVars, sfVars, sfHist, grpVars, grpHist>>
    /\ UNCHANGED httpVars

\* m.Get(key)
RingGet(k) ==
    /\ ringRes' = [out |-> "return", key |-> k, peer |-> MapGet(peers, k)]
    /\ UNCHANGED <<self, hashFn, peers, httpGetters, pickRes, members, snap, trip>>
    /\ UNCHANGED <<lruVars, sfVars, sfHist, grpVars, grpHist>>
    /\ UNCHANGED httpVars

\* no Map used on its own
InitNoRing ==
    /\ ringRes = NoRingRes
    /\ members = {}
    /\ snap = NoSnap
    /\ trip = NoTrip

(***************************************************************************)
(* http.go: ServeHTTP, with the registry of geecache.go                    *)
(***************************************************************************)

\* names of groups ("g", "x"), the keys asked for over HTTP (a key may hold a
\* slash, and may be empty), and the part of a request path after basePath:
\* <groupName>/<key>, or a group name without a slash
GroupNames == {<<103>>, <<120>>}
ServeKeys == Keys \cup {Nil, <<1, 47, 2>>}
RestPaths == {n \o <<47>> \o k : n \in GroupNames, k \in ServeKeys} \cup GroupNames

\* request paths: under basePath, or not
RequestPaths == {defaultBasePath \o r : r \in RestPaths} \cup {<<47>> \o r : r \in RestPaths}

\* strings.HasPrefix
HasPrefix(str, prefix) ==
    Len(str) >= Len(prefix) /\ SubSeq(str, 1, Len(prefix)) = prefix

\* strings.SplitN(str, "/", 2): cut at the first slash, if there is one
SplitN2(str) ==
    LET slashes == {i \in 1 .. Len(str) : str[i] = 47}
    IN  IF slashes = {} THEN <<str>>
        ELSE LET i == CHOOSE i \in slashes : \A j \in slashes : i <= j
             IN  <<SubSeq(str, 1, i - 1), SubSeq(str, i + 1, Len(str))>>

\* what group.Get(key) does to its caller, lines 172-186 of geecache.go: on a
\* nil *Group an empty key is rejected before g is read, and any other key
\* reads g.mainCache, a nil pointer dereference; r is what a Group's Get
\* answers for a key that is not empty
GroupGet(isNil, k, r) ==
    IF k = Nil THEN [out |-> "return", res |-> [val |-> Nil, err |-> "keyRequired"]]
    ELSE IF isNil THEN [out |-> "panic", res |-> NoResult]
    ELSE [out |-> "return", res |-> r]

\* one http.Error(w, msg, code) or w.Write(body) on the response
ErrorWrite(code) == [code |-> code, body |-> Nil]
BodyWrite(b) == [code |-> 200, body |-> b]

NoServe == [out |-> "none", path |-> Nil, group |-> Nil, found |-> FALSE, key |-> Nil,
            getCalls |-> 0, writes |-> <<>>]

\* lines 91-97: after the 404 is written the handler goes on to
\* group.Get(key) with the nil group, and answers 500 if that returns
AfterNotFound(sofar, k) ==
    LET g == GroupGet(TRUE, k, NoResult)
    IN  IF g.out = "panic"
        THEN [sofar EXCEPT !.out = "panic", !.getCalls = @ + 1]
        ELSE [sofar EXCEPT !.out = "return", !.getCalls = @ + 1,
                           !.writes = Append(@, ErrorWrite(500))]

\* ServeHTTP, lines 70-109
ServeResult(path, r) ==
    IF ~HasPrefix(path, defaultBasePath) THEN [NoServe EXCEPT !.out = "panic"]
    ELSE LET parts == SplitN2(SubSeq(path, Len(defaultBasePath) + 1, Len(path)))
         IN  IF Len(parts) # 2
             THEN [NoServe EXCEPT !.out = "return", !.writes = <<ErrorWrite(400)>>]
             ELSE LET groupName == parts[1]
                      k == parts[2]
                      sofar == [NoServe EXCEPT !.group = groupName, !.key = k,
                                               !.found = groupName \in groups]
                  IN  IF groupName \notin groups
                      THEN AfterNotFound([sofar EXCEPT !.writes = <<ErrorWrite(404)>>], k)
                      ELSE LET g == GroupGet(FALSE, k, r)
                           IN  IF g.res.err # NoErr
                               THEN [sofar EXCEPT !.out = "return", !.getCalls = 1,
                                                  !.writes = <<ErrorWrite(500)>>]
                               ELSE [sofar EXCEPT !.out = "return", !.getCalls = 1,
                                                  !.writes = <<BodyWrite(g.res.val)>>]

\* NewGroup(name, ...), lines 140-154: the group is registered under name
NewGroup(name) ==
    /\ groups' = groups \cup {name}
    /\ UNCHANGED serveRes
    /\ UNCHANGED <<self, hashFn, peers, httpGetters, pickRes, ringHist>>
    /\ UNCHANGED <<lruVars, sfVars, sfHist, grpVars, grpHist>>

\* p.ServeHTTP(w, r) for a request on path
ServeHTTP(path, r) ==
    /\ serveRes' = [ServeResult(path, r) EXCEPT !.path = path]
    /\ UNCHANGED groups
    /\ UNCHANGED <<self, hashFn, peers, httpGetters, pickRes, ringHist>>
    /\ UNCHANGED <<lruVars, sfVars, sfHist, grpVars, grpHist>>

\* no request served, no group registered
InitNoHttp ==
    /\ groups = {}
    /\ serveRes = NoServe

\* no HTTPPool in play
InitNoPool ==
    /\ self = <<65>>
    /\ hashFn = [x \in HashDomain |-> 0]
    /\ peers = NilMap
    /\ httpGetters = [x \in PeerNames |-> NilGetter]
    /\ pickRes = NoPick
    /\ InitNoRing
    /\ InitNoHttp


(***************************************************************************)
(* lru.go                                                                  *)
(***************************************************************************)

\* lru.New: an empty list, an empty map, nbytes = 0
EmptyLRU == [ll |-> <<>>, cache |-> {}, nbytes |-> 0]

\* len(kv.key) + kv.value.Len()
EntryBytes(e) == Len(e.key) + Len(e.value)

\* position of the list element the map binds to key k
IndexOf(ll, k) == CHOOSE i \in 1 .. Len(ll) : ll[i].key = k

\* the sequence s without its i-th element
RemoveAt(s, i) == SubSeq(s, 1, i - 1) \o SubSeq(s, i + 1, Len(s))

\* the sequence of keys s without key k
WithoutKey(s, k) == SelectSeq(s, LAMBDA x : x # k)

\* list.MoveToFront(ele)
MoveToFront(ll, i) == <<ll[i]>> \o RemoveAt(ll, i)

\* Cache.Get that forgets c.ll.MoveToFront(ele)
LRUGet_NoMove(c, k) ==
    IF k \in c.cache
    THEN [state |-> c, value |-> c.ll[IndexOf(c.ll, k)].value, ok |-> TRUE]
    ELSE [state |-> c, value |-> Nil, ok |-> FALSE]

\* Cache.Get: a found key moves to the front; nbytes is not changed
LRUGet(c, k) ==
    IF k \in c.cache
    THEN LET i == IndexOf(c.ll, k)
         IN  [state |-> [c EXCEPT !.ll = MoveToFront(c.ll, i)],
              value |-> c.ll[i].value, ok |-> TRUE]
    ELSE [state |-> c, value |-> Nil, ok |-> FALSE]

\* Cache.RemoveOldest that takes c.ll.Front() for c.ll.Back()
RemoveOldest_Front(c) ==
    IF c.ll # <<>>
    THEN LET e == c.ll[1]
         IN  [ll |-> Tail(c.ll),
              cache |-> c.cache \ {e.key},
              nbytes |-> c.nbytes - EntryBytes(e)]
    ELSE c

\* Cache.RemoveOldest: drop the back element from list and map, subtract its bytes
RemoveOldest(c) ==
    IF c.ll # <<>>
    THEN LET e == c.ll[Len(c.ll)]
         IN  [ll |-> SubSeq(c.ll, 1, Len(c.ll) - 1),
              cache |-> c.cache \ {e.key},
              nbytes |-> c.nbytes - EntryBytes(e)]
    ELSE c

\* Cache.Add whose update branch replaces the value and leaves nbytes alone
AddMutate_NoDelta(c, k, v) ==
    IF k \in c.cache
    THEN LET i == IndexOf(c.ll, k)
             moved == MoveToFront(c.ll, i)
         IN  [ll |-> [moved EXCEPT ![1].value = v],
              cache |-> c.cache,
              nbytes |-> c.nbytes]
    ELSE [ll |-> <<[key |-> k, value |-> v]>> \o c.ll,
          cache |-> c.cache \cup {k},
          nbytes |-> c.nbytes + Len(k) + Len(v)]

\* Cache.Add, lines 74-87: update in place or push front, before the eviction loop
AddMutate(c, k, v) ==
    IF k \in c.cache
    THEN LET i == IndexOf(c.ll, k)
             moved == MoveToFront(c.ll, i)
         IN  [ll |-> [moved EXCEPT ![1].value = v],
              cache |-> c.cache,
              nbytes |-> c.nbytes + Len(v) - Len(c.ll[i].value)]
    ELSE [ll |-> <<[key |-> k, value |-> v]>> \o c.ll,
          cache |-> c.cache \cup {k},
          nbytes |-> c.nbytes + Len(k) + Len(v)]

\* Cache.Add, line 90: the loop condition
EvictGuard(c, mb) == mb # 0 /\ mb < c.nbytes

\* Cache.Len
LRULen(c) == Len(c.ll)

\* the keys in the recency list, front first
ListKeys(c) == [i \in 1 .. Len(c.ll) |-> c.ll[i].key]

NoOp == [op |-> "none", key |-> Nil, ok |-> FALSE, size |-> 0]
NoEvict == [key |-> Nil, oldest |-> Nil, olderSurvives |-> FALSE, guard |-> FALSE]

\* the keys an operation removed from the map
Removed(before, after) == before.cache \ after.cache

\* history of an eviction that took `before` to `after`: the key removed, the
\* least recently touched key at that moment, and whether a key inserted before
\* the removed one stays
EvictRecord(before, after, guard) ==
    LET k == CHOOSE x \in Removed(before, after) : TRUE
    IN  [key |-> k, oldest |-> Head(touched),
         olderSurvives |->
            \E i \in 1 .. Len(insOrder) : \E j \in 1 .. Len(insOrder) :
                i < j /\ insOrder[j] = k /\ insOrder[i] # k,
         guard |-> guard]

\* the history variables after a step that may have removed an entry
NoteEviction(before, after, guard) ==
    IF Removed(before, after) # {}
    THEN /\ lastEvict' = EvictRecord(before, after, guard)
         /\ touched' = SelectSeq(touched, LAMBDA x : x \in after.cache)
         /\ insOrder' = SelectSeq(insOrder, LAMBDA x : x \in after.cache)
    ELSE UNCHANGED <<lastEvict, touched, insOrder>>

\* v, ok := c.Get(k) by a caller
LGet(k) ==
    /\ lpc = "idle"
    /\ LET r == LRUGet(lru, k)
       IN  /\ lru' = r.state
           /\ lastOp' = [op |-> "Get", key |-> k, ok |-> r.ok, size |-> 0]
           /\ touched' = IF r.ok THEN Append(WithoutKey(touched, k), k) ELSE touched
    /\ UNCHANGED <<sfVars, sfHist, grpVars, grpHist>>
    /\ UNCHANGED <<maxBytes, lpc, insOrder, lastEvict>>
    /\ UNCHANGED poolVars

\* c.Add(k, v) up to the eviction loop; lastOp.ok tells an update from an insert
LAdd(k, v) ==
    /\ lpc = "idle"
    /\ lru' = AddMutate(lru, k, v)
    /\ lpc' = "evict"
    /\ lastOp' = [op |-> "Add", key |-> k, ok |-> k \in lru.cache,
                  size |-> Len(k) + Len(v)]
    /\ touched' = Append(WithoutKey(touched, k), k)
    /\ insOrder' = IF k \in lru.cache THEN insOrder ELSE Append(insOrder, k)
    /\ UNCHANGED <<sfVars, sfHist, grpVars, grpHist>>
    /\ UNCHANGED <<maxBytes, lastEvict>>
    /\ UNCHANGED poolVars

\* one iteration of the loop of Add: c.RemoveOldest()
LAddEvict ==
    /\ lpc = "evict"
    /\ EvictGuard(lru, maxBytes)
    /\ lru' = RemoveOldest(lru)
    /\ NoteEviction(lru, lru', TRUE)
    /\ UNCHANGED <<sfVars, sfHist, grpVars, grpHist>>
    /\ UNCHANGED <<maxBytes, lpc, lastOp>>
    /\ UNCHANGED poolVars

\* the loop condition of Add fails: Add returns
LAddReturn ==
    /\ lpc = "evict"
    /\ ~EvictGuard(lru, maxBytes)
    /\ lpc' = "idle"
    /\ UNCHANGED <<sfVars, sfHist, grpVars, grpHist>>
    /\ UNCHANGED <<lru, maxBytes, lastOp, touched, insOrder, lastEvict>>
    /\ UNCHANGED poolVars

\* c.RemoveOldest() called by a caller
LRemoveOldest ==
    /\ lpc = "idle"
    /\ lru' = RemoveOldest(lru)
    /\ lastOp' = [op |-> "RemoveOldest", key |-> Nil, ok |-> lru.ll # <<>>, size |-> 0]
    /\ NoteEviction(lru, lru', FALSE)
    /\ UNCHANGED <<sfVars, sfHist, grpVars, grpHist>>
    /\ UNCHANGED <<maxBytes, lpc>>
    /\ UNCHANGED poolVars



(***************************************************************************)
(* singleflight.go: Group.Do                                               *)
(***************************************************************************)

\* what fn may return in a call of Do
FnResults == OkResults \cup {[val |-> Nil, err |-> "fnErr"]}

\* the calls somebody still points to: from the map, or from a caller
Referenced == {m[k] : k \in Keys} \cup {callOf[p] : p \in Procs}

\* new(call): an object nobody points to
NewCall == CHOOSE h \in Handles : h \notin Referenced /\ \A g \in Handles : g \notin Referenced => h <= g

\* the execution of fn for key k that has not returned yet, 0 when none
RunningExec(k, thunkPcs) ==
    IF \E q \in Procs : pc[q] \in thunkPcs /\ key[q] = k
    THEN LET q == CHOOSE q \in Procs : pc[q] \in thunkPcs /\ key[q] = k
         IN  CHOOSE e \in hexecs[callOf[q]] : \A f \in hexecs[callOf[q]] : f <= e
    ELSE 0

\* a caller calls Do(k, fn): it stands before g.mu.Lock() (line 34)
DoEnter(p, k, thunkPcs) ==
    /\ pc' = [pc EXCEPT ![p] = "do_lock"]
    /\ key' = [key EXCEPT ![p] = k]
    /\ joined' = [joined EXCEPT ![p] = RunningExec(k, thunkPcs)]
    /\ entry' = [entry EXCEPT ![p] =
                    IF \E q \in Procs \ {p} : pc[q] # "idle" /\ key[q] = k THEN "overlap"
                    ELSE IF k \in completed THEN "after" ELSE "first"]

\* line 34: g.mu.Lock()
DoLock(p) ==
    /\ pc[p] = "do_lock"
    /\ mu = 0
    /\ mu' = p
    /\ pc' = [pc EXCEPT ![p] = "do_lookup"]
    /\ UNCHANGED <<lruVars, grpVars, grpHist, key, mNil, m, wg, hval, herr, callOf, ret, sfHist>>
    /\ UNCHANGED poolVars

\* lines 41 and 57 with g.mu.Unlock() left out: p keeps the mutex
Unlock_Forgotten(p) == p

\* g.mu.Unlock() by p, lines 41, 57 and 67: the mutex is free
Unlock(p) == 0

\* lines 50-55 with the registration g.m[key] = c left out
Register_Forgotten(mm, k, h) == mm

\* line 55: g.m[key] = c
Register(mm, k, h) == [mm EXCEPT ![k] = h]

\* lines 36-57: make the map if nil; a call bound to the key is waited for
\* (line 40-41), else a new call is made, counted and bound to the key
DoLookup(p) ==
    /\ pc[p] = "do_lookup"
    /\ mu = p
    /\ mNil' = FALSE
    /\ IF m[key[p]] # 0
       THEN /\ callOf' = [callOf EXCEPT ![p] = m[key[p]]]
            /\ pc' = [pc EXCEPT ![p] = "do_wait"]
            /\ UNCHANGED <<m, wg, hval, herr, hexecs>>
       ELSE LET h == NewCall
            IN  /\ callOf' = [callOf EXCEPT ![p] = h]
                /\ wg' = [wg EXCEPT ![h] = 1]
                /\ hval' = [hval EXCEPT ![h] = Nil]
                /\ herr' = [herr EXCEPT ![h] = NoErr]
                /\ hexecs' = [hexecs EXCEPT ![h] = {}]
                /\ m' = Register(m, key[p], h)
                /\ pc' = [pc EXCEPT ![p] = "do_fn"]
    /\ mu' = Unlock(p)
    /\ UNCHANGED <<lruVars, grpVars, grpHist, key, ret, execRes, served, joined, entry, completed>>
    /\ UNCHANGED poolVars

\* the execution a waiter is served by: the one made for the call it waited on
ServedBy(h) == IF hexecs[h] = {} THEN 0 ELSE CHOOSE e \in hexecs[h] : \A f \in hexecs[h] : f <= e

\* lines 44-47: c.wg.Wait() returns once the counter is 0; return c.val, c.err
DoWait(p) ==
    /\ pc[p] = "do_wait"
    /\ wg[callOf[p]] = 0
    /\ ret' = [ret EXCEPT ![p] = [val |-> hval[callOf[p]], err |-> herr[callOf[p]]]]
    /\ served' = [served EXCEPT ![p] = ServedBy(callOf[p])]
    /\ pc' = [pc EXCEPT ![p] = "do_ret"]
    /\ UNCHANGED <<lruVars, grpVars, grpHist, key, mu, mNil, m, wg, hval, herr, callOf, hexecs, execRes, joined, entry, completed>>
    /\ UNCHANGED poolVars

\* a name for a new execution of fn: one no caller and no call refers to
NewExec ==
    LET used == UNION {hexecs[h] : h \in Handles}
                  \cup {served[q] : q \in Procs} \cup {joined[q] : q \in Procs}
    IN  CHOOSE e \in Execs : e \notin used /\ \A f \in Execs : f \notin used => e <= f

\* line 60, the call: fn starts to run, outside the mutex
FnStart(p, next) ==
    /\ pc[p] = "do_fn"
    /\ hexecs' = [hexecs EXCEPT ![callOf[p]] = @ \cup {NewExec}]
    /\ served' = [served EXCEPT ![p] = NewExec]
    /\ pc' = [pc EXCEPT ![p] = next]

\* line 60, the assignment: c.val, c.err = what fn returned
FnStore(p, r) ==
    /\ hval' = [hval EXCEPT ![callOf[p]] = r.val]
    /\ herr' = [herr EXCEPT ![callOf[p]] = r.err]
    /\ execRes' = [execRes EXCEPT ![served[p]] = r]
    /\ pc' = [pc EXCEPT ![p] = "do_done"]

\* line 62 with c.wg.Done() left out
Release_Forgotten(w, h) == w

\* c.wg.Done(): the counter of the call goes down by one
Release(w, h) == [w EXCEPT ![h] = @ - 1]

\* line 62: c.wg.Done()
DoDone(p) ==
    /\ pc[p] = "do_done"
    /\ wg' = Release(wg, callOf[p])
    /\ pc' = [pc EXCEPT ![p] = "do_lock2"]
    /\ UNCHANGED <<lruVars, grpVars, grpHist, key, mu, mNil, m, hval, herr, callOf, ret, sfHist>>
    /\ UNCHANGED poolVars

\* line 64: g.mu.Lock()
DoLock2(p) ==
    /\ pc[p] = "do_lock2"
    /\ mu = 0
    /\ mu' = p
    /\ pc' = [pc EXCEPT ![p] = "do_delete"]
    /\ UNCHANGED <<lruVars, grpVars, grpHist, key, mNil, m, wg, hval, herr, callOf, ret, sfHist>>
    /\ UNCHANGED poolVars

\* line 66 with the delete left out
Unregister_Kept(mm, k) == mm

\* line 66: delete(g.m, key)
Unregister(mm, k) == [mm EXCEPT ![k] = 0]

\* lines 66-70: delete(g.m, key); g.mu.Unlock(); return c.val, c.err
DoDelete(p) ==
    /\ pc[p] = "do_delete"
    /\ mu = p
    /\ m' = Unregister(m, key[p])
    /\ mu' = Unlock(p)
    /\ ret' = [ret EXCEPT ![p] = [val |-> hval[callOf[p]], err |-> herr[callOf[p]]]]
    /\ pc' = [pc EXCEPT ![p] = "do_ret"]
    /\ UNCHANGED <<lruVars, grpVars, grpHist, key, mNil, wg, hval, herr, callOf, sfHist>>
    /\ UNCHANGED poolVars

\* the steps of Do that are the same whatever fn is
DoSteps(p) == DoLock(p) \/ DoLookup(p) \/ DoWait(p) \/ DoDone(p) \/ DoLock2(p) \/ DoDelete(p)

\* the caller drops its pointer to the call and is ready for another call; a
\* call nobody points to any more is garbage, and so is the history of an
\* execution nobody is served by
Forget(p) ==
    LET h == callOf[p]
        live == {m[k] : k \in Keys} \cup {callOf[q] : q \in Procs \ {p}}
        dead == h # 0 /\ h \notin live
        needed == UNION {hexecs[g] : g \in live \cap Handles}
                    \cup {served[q] : q \in Procs \ {p}} \cup {joined[q] : q \in Procs \ {p}}
    IN  /\ callOf' = [callOf EXCEPT ![p] = 0]
        /\ ret' = [ret EXCEPT ![p] = NoResult]
        /\ served' = [served EXCEPT ![p] = 0]
        /\ joined' = [joined EXCEPT ![p] = 0]
        /\ entry' = [entry EXCEPT ![p] = "none"]
        /\ key' = [key EXCEPT ![p] = Nil]
        /\ wg' = IF dead THEN [wg EXCEPT ![h] = 0] ELSE wg
        /\ hval' = IF dead THEN [hval EXCEPT ![h] = Nil] ELSE hval
        /\ herr' = IF dead THEN [herr EXCEPT ![h] = NoErr] ELSE herr
        /\ hexecs' = IF dead THEN [hexecs EXCEPT ![h] = {}] ELSE hexecs
        /\ execRes' = [e \in DOMAIN execRes |-> IF e \in needed THEN execRes[e] ELSE NoResult]

(***************************************************************************)
(* Do on its own: callers of Do(k, fn) with an fn that returns any result  *)
(***************************************************************************)

\* where a caller is while its fn runs
SFThunkPcs == {"fn_run"}

\* a caller calls Do(k, fn)
SFCall(p, k) ==
    /\ pc[p] = "idle"
    /\ DoEnter(p, k, SFThunkPcs)
    /\ UNCHANGED <<lruVars, grpVars, grpHist, mu, mNil, m, wg, hval, herr, callOf, ret, hexecs, execRes, served, completed>>
    /\ UNCHANGED poolVars

\* fn is called
SFFnStart(p) ==
    /\ FnStart(p, "fn_run")
    /\ UNCHANGED <<lruVars, grpVars, grpHist, key, mu, mNil, m, wg, hval, herr, callOf, ret, execRes, joined, entry, completed>>
    /\ UNCHANGED poolVars

\* fn returns r
SFFnReturn(p, r) ==
    /\ pc[p] = "fn_run"
    /\ FnStore(p, r)
    /\ UNCHANGED <<lruVars, grpVars, grpHist, key, mu, mNil, m, wg, callOf, ret, hexecs, served, joined, entry, completed>>
    /\ UNCHANGED poolVars

\* Do has returned ret[p] to its caller
SFReturn(p) ==
    /\ pc[p] = "do_ret"
    /\ pc' = [pc EXCEPT ![p] = "idle"]
    /\ Forget(p)
    /\ completed' = completed \cup {key[p]}
    /\ UNCHANGED <<lruVars, grpVars, grpHist, mu, mNil, m>>
    /\ UNCHANGED poolVars

\* the variables of the singleflight group and its callers, before any call
InitSF ==
    /\ pc = [p \in Procs |-> "idle"]
    /\ key = [p \in Procs |-> Nil]
    /\ mu = 0
    /\ mNil = TRUE
    /\ m = [k \in Keys |-> 0]
    /\ wg = [h \in Handles |-> 0]
    /\ hval = [h \in Handles |-> Nil]
    /\ herr = [h \in Handles |-> NoErr]
    /\ callOf = [p \in Procs |-> 0]
    /\ ret = [p \in Procs |-> NoResult]
    /\ hexecs = [h \in Handles |-> {}]
    /\ execRes = [e \in Execs |-> NoResult]
    /\ served = [p \in Procs |-> 0]
    /\ joined = [p \in Procs |-> 0]
    /\ entry = [p \in Procs |-> "none"]
    /\ completed = {}

\* an LRU nobody uses
InitNoLRU ==
    /\ lru = EmptyLRU
    /\ maxBytes = 0
    /\ lpc = "idle"
    /\ lastOp = NoOp
    /\ touched = <<>>
    /\ insOrder = <<>>
    /\ lastEvict = NoEvict

\* a Group nobody uses
InitNoGroup ==
    /\ peersReg = FALSE
    /\ lvalue = [p \in Procs |-> Nil]
    /\ lerr = [p \in Procs |-> NoErr]
    /\ getRet = [p \in Procs |-> NoResult]
    /\ gh = [p \in Procs |-> NoHist]
    /\ lastFail = Nil
    /\ coh = [k \in Keys |-> NoBytes]
    /\ later = [p \in Procs |-> NoBytes]

InitDo == InitSF /\ InitNoLRU /\ InitNoGroup /\ InitNoPool

NextDo ==
    \/ \E p \in Procs : \E k \in Keys : SFCall(p, k)
    \/ \E p \in Procs : DoSteps(p)
    \/ \E p \in Procs : SFFnStart(p)
    \/ \E p \in Procs : \E r \in FnResults : SFFnReturn(p, r)
    \/ \E p \in Procs : SFReturn(p)

SpecDo == InitDo /\ [][NextDo]_vars

\* what fn returns when only whether it returns matters
FairResults == {[val |-> <<7>>, err |-> NoErr]}

\* Do under fair scheduling, with every fn that was called returning: a
\* goroutine that can take a step takes it, and one that waits for the mutex
\* gets it (sync.Mutex hands a starving waiter the lock)
FairDo ==
    \A p \in Procs :
        /\ SF_vars(DoLock(p))
        /\ SF_vars(DoLock2(p))
        /\ WF_vars(DoLookup(p))
        /\ WF_vars(DoWait(p))
        /\ WF_vars(DoDone(p))
        /\ WF_vars(DoDelete(p))
        /\ WF_vars(SFFnStart(p))
        /\ WF_vars(\E r \in FairResults : SFFnReturn(p, r))
        /\ WF_vars(SFReturn(p))

NextDoFair ==
    \/ \E p \in Procs : \E k \in Keys : SFCall(p, k)
    \/ \E p \in Procs : DoSteps(p)
    \/ \E p \in Procs : SFFnStart(p)
    \/ \E p \in Procs : \E r \in FairResults : SFFnReturn(p, r)
    \/ \E p \in Procs : SFReturn(p)

SpecDoFair == InitDo /\ [][NextDoFair]_vars /\ FairDo

(***************************************************************************)
(* Do with an fn that may panic                                            *)
(***************************************************************************)

\* what the history keeps of an execution of fn that panicked
Panicked == [val |-> Nil, err |-> "panic"]

\* fn panics: Do has no deferred call and no recover, so the panic unwinds Do
\* from line 60 and neither c.wg.Done() (line 62) nor delete(g.m, key)
\* (line 66) runs
SFFnPanic(p) ==
    /\ pc[p] = "fn_run"
    /\ execRes' = [execRes EXCEPT ![served[p]] = Panicked]
    /\ pc' = [pc EXCEPT ![p] = "panicked"]
    /\ UNCHANGED <<lruVars, grpVars, grpHist, key, mu, mNil, m, wg, hval, herr, callOf, ret, hexecs, served, joined, entry, completed>>
    /\ UNCHANGED poolVars

\* the panic is recovered above Do and the goroutine is ready for another call
SFRecover(p) ==
    /\ pc[p] = "panicked"
    /\ pc' = [pc EXCEPT ![p] = "idle"]
    /\ Forget(p)
    /\ UNCHANGED completed
    /\ UNCHANGED <<lruVars, grpVars, grpHist, mu, mNil, m>>
    /\ UNCHANGED poolVars

NextDoPanic ==
    \/ NextDo
    \/ \E p \in Procs : SFFnPanic(p)
    \/ \E p \in Procs : SFRecover(p)

SpecDoPanic == InitDo /\ [][NextDoPanic]_vars

(***************************************************************************)
(* geecache.go: Group.Get, load, getFromPeer, getLocally, populateCache    *)
(* (in singleflight.go from line 75 on), over the mainCache wrapper        *)
(***************************************************************************)

\* byte budgets handed to NewGroup: 0 (unbounded), and room for one entry
GBudgets == {0, 2}

\* what the loader (Getter.Get) and a peer (PeerGetter.Get) may return
LoaderResults == OkResults \cup {[val |-> Nil, err |-> "loadErr"]}
PeerResults == {[val |-> <<9>>, err |-> NoErr], [val |-> Nil, err |-> "peerErr"]}

\* where a caller is while its peer fetch or its loader call runs
GThunkPcs == {"ld_peer", "ld_local"}

\* byteview.go, cloneBytes: a copy with the same bytes
CloneBytes(b) == [i \in 1 .. Len(b) |-> b[i]]

RECURSIVE EvictLoop(_, _)
\* Cache.Add, lines 90-92: RemoveOldest while the budget is exceeded
EvictLoop(c, mb) == IF EvictGuard(c, mb) THEN EvictLoop(RemoveOldest(c), mb) ELSE c

\* cache.get (cache.go): under the cache's mutex, lru.Get; a nil lru misses
CacheGet(c, k) == LRUGet(c, k)

\* cache.add (cache.go): under the cache's mutex, make the lru if nil, lru.Add
CacheAdd(c, mb, k, v) == EvictLoop(AddMutate(c, k, v), mb)

\* getLocally that populates the cache whatever the loader returned
GetLocally_CacheErr(c, mb, k, r) ==
    [cache |-> CacheAdd(c, mb, k, CloneBytes(r.val)),
     res |-> IF r.err # NoErr THEN [val |-> Nil, err |-> r.err]
             ELSE [val |-> CloneBytes(r.val), err |-> NoErr]]

\* getLocally, given what g.getter.Get(key) returned: an error is passed on;
\* bytes are cloned into a ByteView, added to mainCache and returned
GetLocally(c, mb, k, r) ==
    IF r.err # NoErr
    THEN [cache |-> c, res |-> [val |-> Nil, err |-> r.err]]
    ELSE [cache |-> CacheAdd(c, mb, k, CloneBytes(r.val)),
          res |-> [val |-> CloneBytes(r.val), err |-> NoErr]]

\* getFromPeer that also populates mainCache with the peer's bytes
GetFromPeer_Populate(c, mb, k, r) ==
    IF r.err # NoErr
    THEN [cache |-> c, res |-> [val |-> Nil, err |-> r.err]]
    ELSE [cache |-> CacheAdd(c, mb, k, r.val), res |-> [val |-> r.val, err |-> NoErr]]

\* getFromPeer, given what peer.Get(g.name, key) returned: an error is passed
\* on with an empty ByteView; bytes are wrapped in a ByteView; mainCache is
\* not touched
GetFromPeer(c, mb, k, r) ==
    IF r.err # NoErr
    THEN [cache |-> c, res |-> [val |-> Nil, err |-> r.err]]
    ELSE [cache |-> c, res |-> [val |-> r.val, err |-> NoErr]]

\* the closure of load that returns the peer's error instead of falling back
PeerFallback_None(err) == FALSE

\* load, lines 203-210: after getFromPeer failed the closure logs the error
\* and goes on to getLocally, whatever the error is
PeerFallback(err) == TRUE

\* load, lines 213-216, given what Do returned: the view itself when err is
\* nil, else the named results (value, err)
LoadResult(doRet, namedValue) ==
    IF doRet.err = NoErr THEN [val |-> doRet.val, err |-> NoErr]
    ELSE [val |-> namedValue, err |-> doRet.err]

\* history: the bytes recorded for the keys still cached in newlru
StillCached(f, keyOf, newlru) ==
    [x \in DOMAIN f |-> IF keyOf[x] \in newlru.cache THEN f[x] ELSE NoBytes]

\* history: gh with caller p's entry noting whether p's step changed the LRU
Touch(g, p, newlru) == [g EXCEPT ![p].touched = @ \/ (newlru # lru)]

\* g.RegisterPeers(picker), before any Get
RegisterPeers ==
    /\ ~peersReg
    /\ \A p \in Procs : pc[p] = "idle"
    /\ peersReg' = TRUE
    /\ UNCHANGED <<lruVars, sfVars, sfHist, lvalue, lerr, getRet, grpHist>>
    /\ UNCHANGED poolVars

\* g.Get(k), lines 172-186: an empty key is rejected; a key found in mainCache
\* is returned; else load(key) is entered, which enters g.loader.Do
GetCall(p, k) ==
    /\ pc[p] = "idle"
    /\ IF k = Nil
       THEN /\ getRet' = [getRet EXCEPT ![p] = [val |-> Nil, err |-> "keyRequired"]]
            /\ pc' = [pc EXCEPT ![p] = "get_ret"]
            /\ gh' = [gh EXCEPT ![p] = [NoHist EXCEPT !.src = "rejected"]]
            /\ UNCHANGED <<lru, key, joined, entry, later>>
       ELSE LET r == CacheGet(lru, k)
            IN  /\ lru' = r.state
                /\ later' = [later EXCEPT ![p] = coh[k]]
                /\ IF r.ok
                   THEN /\ getRet' = [getRet EXCEPT ![p] = [val |-> r.value, err |-> NoErr]]
                        /\ pc' = [pc EXCEPT ![p] = "get_ret"]
                        /\ key' = [key EXCEPT ![p] = k]
                        /\ gh' = Touch([gh EXCEPT ![p] = [NoHist EXCEPT !.src = "hit"]], p, r.state)
                        /\ UNCHANGED <<joined, entry>>
                   ELSE /\ DoEnter(p, k, {})
                        /\ gh' = [gh EXCEPT ![p] =
                                    [NoHist EXCEPT !.start =
                                        IF \E q \in Procs \ {p} : pc[q] # "idle" /\ key[q] = k
                                        THEN "overlap"
                                        ELSE IF lastFail = k THEN "afterFail" ELSE "alone"]]
                        /\ UNCHANGED getRet
    /\ UNCHANGED <<maxBytes, lpc, lastOp, touched, insOrder, lastEvict>>
    /\ UNCHANGED <<mu, mNil, m, wg, hval, herr, callOf, ret, hexecs, execRes, served, completed>>
    /\ lastFail' = Nil
    /\ UNCHANGED <<peersReg, lvalue, lerr, coh>>
    /\ UNCHANGED poolVars

\* the closure of load starts, lines 201-210: with peers registered,
\* PickPeer(key) either names a remote peer, whose Get is then called, or
\* does not; without a remote peer g.getter.Get(key) is called
LoadStart(p, remote) ==
    /\ remote => peersReg
    /\ FnStart(p, IF remote THEN "ld_peer" ELSE "ld_local")
    /\ gh' = [gh EXCEPT ![p].loaderCalls = IF remote THEN @ ELSE @ + 1]
    /\ UNCHANGED <<lruVars, key, mu, mNil, m, wg, hval, herr, callOf, ret, execRes, joined, entry, completed>>
    /\ UNCHANGED <<grpVars, coh, later, lastFail>>
    /\ UNCHANGED poolVars

\* peer.Get returns r to getFromPeer (lines 203-206, 220-227): bytes end the
\* closure; an error is logged and g.getter.Get(key) is called
LoadPeerReturn(p, r) ==
    /\ pc[p] = "ld_peer"
    /\ LET g == GetFromPeer(lru, maxBytes, key[p], r)
       IN  /\ lru' = g.cache
           /\ lvalue' = [lvalue EXCEPT ![p] = g.res.val]
           /\ lerr' = [lerr EXCEPT ![p] = g.res.err]
           /\ coh' = StillCached(coh, [k \in Keys |-> k], g.cache)
           /\ later' = StillCached(later, key, g.cache)
           /\ IF g.res.err = NoErr
              THEN /\ FnStore(p, g.res)
                   /\ gh' = Touch([gh EXCEPT ![p].src = "peer"], p, g.cache)
              ELSE IF PeerFallback(g.res.err)
              THEN /\ pc' = [pc EXCEPT ![p] = "ld_local"]
                   /\ gh' = Touch([gh EXCEPT ![p].peerFailed = TRUE, ![p].loaderCalls = @ + 1],
                                  p, g.cache)
                   /\ UNCHANGED <<hval, herr, execRes>>
              ELSE /\ FnStore(p, g.res)
                   /\ gh' = Touch([gh EXCEPT ![p].peerFailed = TRUE], p, g.cache)
    /\ UNCHANGED <<maxBytes, lpc, lastOp, touched, insOrder, lastEvict>>
    /\ UNCHANGED <<key, mu, mNil, m, wg, callOf, ret, hexecs, served, joined, entry, completed>>
    /\ UNCHANGED <<peersReg, getRet, lastFail>>
    /\ UNCHANGED poolVars

\* g.getter.Get returns r to getLocally (lines 230-238), which ends the closure
LoadLocalReturn(p, r) ==
    /\ pc[p] = "ld_local"
    /\ LET g == GetLocally(lru, maxBytes, key[p], r)
           seen == [gh EXCEPT ![p].src = "local", ![p].loaderOut = r]
       IN  /\ lru' = g.cache
           /\ FnStore(p, g.res)
           /\ coh' = StillCached(coh, [k \in Keys |-> k], g.cache)
           /\ later' = StillCached(later, key, g.cache)
           /\ gh' = Touch([q \in Procs |->
                             IF pc[q] # "idle" /\ key[q] = key[p] /\ seen[q].start # "overlap"
                             THEN [seen[q] EXCEPT !.sawLoader = TRUE] ELSE seen[q]],
                          p, g.cache)
    /\ UNCHANGED <<maxBytes, lpc, lastOp, touched, insOrder, lastEvict>>
    /\ UNCHANGED <<key, mu, mNil, m, wg, callOf, ret, hexecs, served, joined, entry, completed>>
    /\ UNCHANGED <<grpVars, lastFail>>
    /\ UNCHANGED poolVars

\* what Get is returning to caller p: after a hit or a rejected key the pair
\* Get made itself, else what load makes of the pair Do returned
GetResult(p) == IF pc[p] = "do_ret" THEN LoadResult(ret[p], lvalue[p]) ELSE getRet[p]

\* caller p's Get is returning
Returning(p) == pc[p] \in {"do_ret", "get_ret"}

\* Do has returned to load, which returns to Get (lines 199, 213-216, 185),
\* or Get returns by itself (lines 175, 181): the caller takes what Get
\* returned and is ready for another call
GetReturn(p) ==
    /\ Returning(p)
    /\ pc' = [pc EXCEPT ![p] = "idle"]
    /\ Forget(p)
    /\ UNCHANGED completed
    /\ lvalue' = [lvalue EXCEPT ![p] = Nil]
    /\ lerr' = [lerr EXCEPT ![p] = NoErr]
    /\ getRet' = [getRet EXCEPT ![p] = NoResult]
    /\ gh' = [gh EXCEPT ![p] = NoHist]
    /\ later' = [later EXCEPT ![p] = NoBytes]
    /\ lastFail' = IF GetResult(p).err = "loadErr" THEN key[p] ELSE Nil
    /\ coh' = IF /\ gh[p].src = "local" /\ GetResult(p).err = NoErr
                 /\ key[p] \in lru.cache /\ coh[key[p]] = NoBytes
              THEN [coh EXCEPT ![key[p]] = GetResult(p).val]
              ELSE coh
    /\ UNCHANGED <<lruVars, mu, mNil, m, peersReg>>
    /\ UNCHANGED poolVars

InitGroup ==
    /\ InitSF
    /\ InitNoGroup
    /\ lru = EmptyLRU
    /\ maxBytes \in GBudgets
    /\ lpc = "idle"
    /\ lastOp = NoOp
    /\ touched = <<>>
    /\ insOrder = <<>>
    /\ lastEvict = NoEvict
    /\ InitNoPool

NextGroup ==
    \/ RegisterPeers
    \/ \E p \in Procs : \E k \in Keys \cup {Nil} : GetCall(p, k)
    \/ \E p \in Procs : DoSteps(p)
    \/ \E p \in Procs : \E remote \in BOOLEAN : LoadStart(p, remote)
    \/ \E p \in Procs : \E r \in PeerResults : LoadPeerReturn(p, r)
    \/ \E p \in Procs : \E r \in LoaderResults : LoadLocalReturn(p, r)
    \/ \E p \in Procs : GetReturn(p)

SpecGroup == InitGroup /\ [][NextGroup]_vars

(***************************************************************************)
(* Claims about Group.Get (checked under SpecGroup)                        *)
(***************************************************************************)

\* the bytes a peer can hand over, and the bytes the loader can
PeerBytes == {r.val : r \in {x \in PeerResults : x.err = NoErr}}
LoaderBytes == {r.val : r \in {x \in LoaderResults : x.err = NoErr}}

\* C2: on one node, whatever the interleaving of concurrent Get(k) calls, at
\* most one loader call or peer fetch for k runs at any instant, and every
\* caller coalesced onto a load returns the same (value, error) pair as the
\* caller that executed it: the pair that execution of the load produced.
C2_OneLoadPerKey ==
    /\ \A k \in Keys : Cardinality({p \in Procs : pc[p] \in GThunkPcs /\ key[p] = k}) <= 1
    /\ \A p \in Procs : pc[p] = "do_ret" => GetResult(p) = execRes[served[p]]
    /\ \A p \in Procs : \A q \in Procs :
          (pc[p] = "do_ret" /\ pc[q] = "do_ret" /\ callOf[p] = callOf[q])
              => GetResult(p) = GetResult(q)

\* C2 witness: two callers of Get on one key return from the same load, with
\* the bytes the loader returned
C2_Witness ==
    \E p \in Procs : \E q \in Procs :
        /\ p # q /\ pc[p] = "do_ret" /\ pc[q] = "do_ret"
        /\ key[p] = key[q] /\ callOf[p] = callOf[q]
        /\ gh[p].src = "local" /\ gh[q].src = "none"
        /\ GetResult(q).err = NoErr /\ GetResult(q).val \in LoaderBytes

\* C3 as stated: once a Get(k) has returned bytes obtained from the local
\* loader, every Get(k) that begins later on the node, while k has not been
\* evicted, is an LRU hit that returns those same bytes without a loader call.
C3_Original ==
    \A p \in Procs :
        (Returning(p) /\ later[p] # NoBytes) =>
            /\ gh[p].src = "hit"
            /\ GetResult(p) = [val |-> later[p], err |-> NoErr]

\* C4 as stated: the bytes a load obtained from a remote peer are inserted into
\* the requesting node's LRU, so under a budget that never evicts the key is
\* cached, with those bytes, when that Get returns.
C4_Original ==
    \A p \in Procs :
        (pc[p] = "do_ret" /\ gh[p].src = "peer" /\ maxBytes = 0) =>
            /\ key[p] \in lru.cache
            /\ lru.ll[IndexOf(lru.ll, key[p])].value = GetResult(p).val

\* C4 as amended: when load(k) obtains the bytes from a remote peer, they are
\* wrapped in a ByteView and returned to the caller, and the load leaves the
\* requesting node's LRU as it was: no entry of the LRU ever holds bytes that
\* came from a peer, so a later Get(k) is no LRU hit on account of that load.
C4_PeerNotCached ==
    /\ \A p \in Procs :
          (pc[p] = "do_ret" /\ gh[p].src = "peer") =>
              /\ ~gh[p].touched
              /\ GetResult(p).err = NoErr
              /\ GetResult(p).val \in PeerBytes
    /\ \A i \in 1 .. Len(lru.ll) : lru.ll[i].value \notin PeerBytes

\* C4 witness: a Get returns a peer's bytes under a budget that never evicts,
\* and its key is not in the LRU
C4_Witness ==
    \E p \in Procs :
        /\ pc[p] = "do_ret" /\ gh[p].src = "peer" /\ maxBytes = 0
        /\ GetResult(p).val \in PeerBytes
        /\ key[p] \notin lru.cache

\* C5: peer fallback. Whenever PickPeer(k) named a remote peer and that peer's
\* Get returned an error, the load calls the local loader exactly once and
\* returns the loader's outcome; the peer's error is never what Get returns.
C5_PeerFallback ==
    /\ \A p \in Procs :
          gh[p].peerFailed =>
              /\ gh[p].loaderCalls = 1
              /\ pc[p] \in {"ld_local", "do_done", "do_lock2", "do_delete", "do_ret"}
              /\ pc[p] # "ld_local" => execRes[served[p]] = gh[p].loaderOut
              /\ pc[p] = "do_ret" => GetResult(p) = gh[p].loaderOut
    /\ \A p \in Procs : Returning(p) => GetResult(p).err # "peerErr"

\* C5 witness: a Get whose peer fetch failed returns the bytes of the loader
C5_Witness ==
    \E p \in Procs :
        /\ pc[p] = "do_ret" /\ gh[p].peerFailed
        /\ GetResult(p).err = NoErr /\ GetResult(p).val \in LoaderBytes

\* C6: no negative caching. When the local loader returns an error for k, the
\* Get(k) that called it returns that error with an empty view, has left the
\* LRU as it was, and its call is no longer bound to k in the singleflight map
\* when it returns; the LRU never holds anything but bytes of a successful
\* loader call; and a Get(k) that begins while no other Get(k) is in progress
\* and returns the loader's error has had the loader called for k, and return
\* that error, while it was running.
C6_NoNegativeCaching ==
    /\ \A p \in Procs :
          (pc[p] = "do_ret" /\ gh[p].src = "local" /\ gh[p].loaderOut.err # NoErr) =>
              /\ GetResult(p) = [val |-> Nil, err |-> gh[p].loaderOut.err]
              /\ ~gh[p].touched
              /\ m[key[p]] # callOf[p]
    /\ \A p \in Procs :
          (Returning(p) /\ GetResult(p).err = "loadErr") =>
              /\ ~gh[p].touched
              /\ gh[p].start # "overlap" => gh[p].sawLoader
    /\ \A i \in 1 .. Len(lru.ll) : lru.ll[i].value \in LoaderBytes

\* C6 witness: the Get(k) that follows a Get(k) ended by the loader's error,
\* with no other Get(k) in progress, has the loader running again, and again
\* returns the loader's error with nothing cached for k
C6_Witness ==
    \E p \in Procs :
        /\ pc[p] = "do_ret" /\ gh[p].start = "afterFail" /\ gh[p].sawLoader
        /\ gh[p].src = "local" /\ GetResult(p).err = "loadErr"
        /\ key[p] \notin lru.cache /\ m[key[p]] = 0

\* C16 as stated: under a budget that never evicts, no caller starts a loader
\* call or a peer fetch for k at a moment when k is already in the node's LRU,
\* so that a loader that succeeds is called at most once for k.
C16_Original ==
    maxBytes = 0 =>
        \A p \in Procs : pc[p] \in GThunkPcs => key[p] \notin lru.cache

(***************************************************************************)
(* Claims about Do (checked under SpecDo)                                  *)
(***************************************************************************)

ExecutorPcs == {"do_fn", "fn_run", "do_done", "do_lock2", "do_delete"}

\* C12 as stated: a Do(k, thunk2) that starts strictly after the previous
\* Do(k, thunk1) has returned, with no caller inside Do on k, always executes
\* thunk2: it never waits for another caller's execution.
C12_Original ==
    \A p \in Procs : entry[p] = "after" => pc[p] # "do_wait"

\* C12 as amended: a call is bound to k only by a caller that looks k up and
\* finds none, and the call is a new one; it is unbound only once its fn has
\* returned and its latch is released; a key is bound only while the caller
\* that bound it is still inside Do, and at most one call per key has its
\* latch held; so a caller that entered Do with nobody inside Do on k is only
\* ever served by its own fn or by a caller that entered after it.
C12_Lifecycle ==
    /\ [](\A k \in Keys :
            /\ m[k] # 0 => \E q \in Procs :
                              key[q] = k /\ callOf[q] = m[k] /\ pc[q] \in ExecutorPcs
            /\ Cardinality({h \in Handles :
                    wg[h] > 0 /\ \E q \in Procs : callOf[q] = h /\ key[q] = k}) <= 1)
    /\ [](\A p \in Procs : \A q \in Procs \ {p} :
            (entry[p] \in {"first", "after"} /\ pc[q] # "idle" /\ key[q] = key[p])
                => entry[q] = "overlap")
    /\ [][\A k \in Keys :
            m'[k] # m[k] =>
                IF m'[k] # 0
                THEN /\ m[k] = 0
                     /\ m'[k] \notin Referenced
                     /\ \E p \in Procs : /\ pc[p] = "do_lookup" /\ key[p] = k
                                         /\ pc'[p] = "do_fn" /\ callOf'[p] = m'[k]
                ELSE /\ wg[m[k]] = 0
                     /\ hexecs[m[k]] # {}
                     /\ \A e \in hexecs[m[k]] : execRes[e] \in FnResults]_vars
    /\ [][\A p \in Procs :
            (pc[p] = "do_lookup" /\ pc'[p] # "do_lookup") =>
                IF m[key[p]] = 0
                THEN pc'[p] = "do_fn"
                ELSE pc'[p] = "do_wait" /\ callOf'[p] = m[key[p]]]_vars

\* C12 witness: a caller that entered Do after a Do on its key had returned,
\* with nobody inside Do on the key, has its own fn running
C12_Witness ==
    \E p \in Procs : entry[p] = "after" /\ pc[p] = "fn_run" /\ key[p] \in completed

\* C19: liveness. With every fn returning and fair scheduling, every call of
\* Do returns; the mutex is held only by a caller between a Lock and the
\* Unlock that follows its look-up or its delete, and once no call of Do is in
\* progress the mutex is free and the in-flight map binds no key.
C19_Liveness ==
    /\ \A p \in Procs : (pc[p] # "idle") ~> (pc[p] = "do_ret")
    /\ [](\A p \in Procs : mu = p => pc[p] \in {"do_lookup", "do_delete"})
    /\ []((\A p \in Procs : pc[p] = "idle") => (mu = 0 /\ \A k \in Keys : m[k] = 0))

\* C19 witness: calls of Do have returned, a waiter's among them, none is in
\* progress and the map is empty
C19_Witness ==
    /\ \A p \in Procs : pc[p] = "idle"
    /\ completed = Keys
    /\ \A k \in Keys : m[k] = 0

\* C20: lock discipline. No caller holds the mutex while its fn is running or
\* about to run, or while it is blocked on a call's latch; whoever holds the
\* mutex can take its next step without waiting for anybody; so a Do on
\* another key can take the mutex and run its own fn while an fn is running.
C20_LockDiscipline ==
    \A p \in Procs :
        /\ pc[p] \in {"do_fn", "fn_run", "do_wait"} => mu # p
        /\ mu = p => ENABLED (DoLookup(p) \/ DoDelete(p))
        /\ (pc[p] = "do_lock" /\ mu = 0) => ENABLED DoLock(p)

\* C20 witness: two callers run their fn at the same time, for different keys
C20_Witness ==
    \E p \in Procs : \E q \in Procs :
        /\ pc[p] = "fn_run" /\ pc[q] = "fn_run"
        /\ key[p] # key[q] /\ mu = 0

\* C11 as stated: once an execution of fn has panicked inside Do(k, fn), the
\* call it ran for is no longer bound to any key in the in-flight map and its
\* latch is released, so that no waiter stays blocked on it and a later
\* Do(k, ...) starts a fresh execution.
C11_Original ==
    \A h \in Handles :
        (\E e \in hexecs[h] : execRes[e] = Panicked) =>
            /\ \A k \in Keys : m[k] # h
            /\ wg[h] = 0

(***************************************************************************)
(* The LRU on its own: one caller of Get, Add and RemoveOldest             *)
(***************************************************************************)

InitLRU ==
    /\ lru = EmptyLRU
    /\ maxBytes \in Budgets
    /\ lpc = "idle"
    /\ lastOp = NoOp
    /\ touched = <<>>
    /\ insOrder = <<>>
    /\ lastEvict = NoEvict
    /\ InitSF
    /\ InitNoGroup
    /\ InitNoPool

NextLRU ==
    \/ \E k \in LKeys : LGet(k)
    \/ \E k \in LKeys : \E v \in LValues : LAdd(k, v)
    \/ LAddEvict
    \/ LAddReturn
    \/ LRemoveOldest

SpecLRU == InitLRU /\ [][NextLRU]_vars

(***************************************************************************)
(* Claims about the LRU (checked under SpecLRU)                            *)
(***************************************************************************)

RECURSIVE SumBytes(_)
\* the sum of len(key) + value.Len() over the entries of a list
SumBytes(ll) == IF ll = <<>> THEN 0 ELSE EntryBytes(Head(ll)) + SumBytes(Tail(ll))

\* the list holds each key once, and the map holds exactly the list's keys
ListMatchesMap(c) ==
    /\ \A i \in 1 .. Len(c.ll) : \A j \in 1 .. Len(c.ll) : c.ll[i].key = c.ll[j].key => i = j
    /\ c.cache = {c.ll[i].key : i \in 1 .. Len(c.ll)}

\* C7: LRU byte conservation. After any sequence of Add, Get and RemoveOldest
\* (Add on an existing key with a larger or smaller value included) nbytes is
\* the sum of len(key) + value.Len() over exactly the entries present, and
\* with maxBytes > 0, nbytes <= maxBytes whenever a public method has returned.
C7_ByteConservation ==
    /\ ListMatchesMap(lru)
    /\ lru.nbytes = SumBytes(lru.ll)
    /\ (lpc = "idle" /\ maxBytes > 0) => lru.nbytes <= maxBytes

\* C7 witness: an Add that updated an existing key has returned, under a
\* positive budget, after the loop of Add evicted an entry, and entries remain
C7_Witness ==
    /\ lpc = "idle" /\ maxBytes > 0
    /\ lastOp.op = "Add" /\ lastOp.ok
    /\ lastEvict.guard
    /\ Len(lru.ll) >= 2

\* the key of the last found Get or of the last Add is the front entry
FrontIsLastKey == lru.ll # <<>> /\ lru.ll[1].key = lastOp.key

\* C8 as stated: immediately after a Get(k) that finds k, and immediately after
\* any Add(k, v) returns, for every key, value size and budget, k is the entry
\* at the front of the recency list.
C8_Original ==
    (lpc = "idle" /\ ((lastOp.op = "Get" /\ lastOp.ok) \/ lastOp.op = "Add"))
        => FrontIsLastKey

\* C8 as amended: immediately after a Get(k) that finds k, and immediately
\* after an Add(k, v) returns under a budget B = 0 or B >= len(k) + v.Len(),
\* k is the front entry; an Add that returns under 0 < B < len(k) + v.Len()
\* has evicted every entry, k included, and leaves the list empty.
C8_Recency ==
    /\ (lpc = "idle" /\ lastOp.op = "Get" /\ lastOp.ok) => FrontIsLastKey
    /\ (lpc = "idle" /\ lastOp.op = "Add" /\ (maxBytes = 0 \/ lastOp.size <= maxBytes))
          => FrontIsLastKey
    /\ (lpc = "idle" /\ lastOp.op = "Add" /\ maxBytes > 0 /\ lastOp.size > maxBytes)
          => (lru.ll = <<>> /\ lru.cache = {} /\ lru.nbytes = 0)

\* C8 witness: an Add of an entry larger than the positive budget has returned
\* and the key it added is not in the cache
C8_Witness ==
    /\ lpc = "idle" /\ lastOp.op = "Add"
    /\ maxBytes > 0 /\ lastOp.size > maxBytes
    /\ lastOp.key \notin lru.cache

\* C9: LRU eviction order. Whenever an entry is evicted (by the loop of Add or
\* by RemoveOldest) it is the entry whose last found Get or Add is the oldest
\* among the entries present: no entry is evicted while one touched less
\* recently stays.
C9_EvictionOrder == lastEvict.key = lastEvict.oldest

\* C9 witness: the loop of Add evicted an entry while an entry inserted before
\* it (and refreshed since) stays in the cache
C9_Witness == lastEvict.key # Nil /\ lastEvict.guard /\ lastEvict.olderSurvives

\* C17 as stated: for every budget B, negative ones included, the loop of Add
\* goes round only while B > 0 and U > B, each round has a tail entry to evict
\* (so the loop ends, U falling each round), and with B = 0 Add evicts nothing.
C17_Original ==
    /\ (lpc = "evict" /\ EvictGuard(lru, maxBytes)) =>
          /\ maxBytes > 0 /\ lru.nbytes > maxBytes
          /\ lru.ll # <<>>
    /\ maxBytes = 0 => ~lastEvict.guard

(***************************************************************************)
(* The HTTPPool on its own                                                 *)
(***************************************************************************)

\* NewHTTPool(self), lines 57-62: p.peers and p.httpGetters are left nil
InitPool ==
    /\ InitSF
    /\ InitNoLRU
    /\ InitNoGroup
    /\ self \in PeerNames
    /\ hashFn \in [HashDomain -> 0 .. MaxHash]
    /\ peers = NilMap
    /\ httpGetters = [x \in PeerNames |-> NilGetter]
    /\ pickRes = NoPick
    /\ InitNoRing
    /\ InitNoHttp

NextPool ==
    \/ \E ps \in PeerLists : Set(ps)
    \/ \E k \in Keys : PickPeer(k)

SpecPool == InitPool /\ [][NextPool]_vars

(***************************************************************************)
(* Claims about the HTTPPool (checked under SpecPool)                      *)
(***************************************************************************)

\* C10 as stated: in every state of the pool, before any Set included,
\* PickPeer(k) returns; it returns (client, true), with the non-nil client
\* registered for the peer, when the ring maps k to a non-empty peer other
\* than self, and (nil, false) in every other case.
C10_Original ==
    pickRes.out # "none" =>
        /\ pickRes.out = "return"
        /\ IF pickRes.owner # Nil /\ pickRes.owner # self
           THEN pickRes.found /\ pickRes.client = Getter(pickRes.owner)
           ELSE ~pickRes.found /\ pickRes.client = NilGetter

(***************************************************************************)
(* The consistent-hash Map on its own                                      *)
(***************************************************************************)

\* consistenthash.New(replicas, fn), lines 26-37, with any hash fn
InitRing ==
    /\ InitSF
    /\ InitNoLRU
    /\ InitNoGroup
    /\ self = <<65>>
    /\ hashFn \in [HashDomain -> 0 .. MaxHash]
    /\ peers = NewMap
    /\ httpGetters = [x \in PeerNames |-> NilGetter]
    /\ pickRes = NoPick
    /\ InitNoRing
    /\ InitNoHttp

NextRing ==
    \/ \E ps \in RingLists : RingAdd(ps)
    \/ \E peer \in RingPeers : RingRemove(peer)
    \/ \E k \in Keys : RingGet(k)

SpecRing == InitRing /\ [][NextRing]_vars

(***************************************************************************)
(* Claims about the Map (checked under SpecRing)                           *)
(***************************************************************************)

\* the peer bound to the smallest hash on the ring that is at least the key's,
\* or to K[0] when there is none; the empty peer id on an empty ring
ExpectedOwner(mp, k) ==
    IF Len(mp.keys) = 0 THEN Nil
    ELSE LET atOrAfter == {x \in RingHashes(mp) : x >= hashFn[k]}
             v == IF atOrAfter = {} THEN mp.keys[1]
                  ELSE CHOOSE x \in atOrAfter : \A y \in atOrAfter : x <= y
         IN  mp.hashMap[v]

\* C13: ring lookup. On a non-empty ring Get(key) returns the peer bound to
\* the smallest virtual-node hash that is at least H(key), wrapping around to
\* the peer bound to K[0] when H(key) exceeds every hash; on an empty ring it
\* returns the empty peer id.
C13_RingLookup ==
    ringRes.out = "return" => ringRes.peer = ExpectedOwner(peers, ringRes.key)

\* C13 witness: a Get whose key hashes above every virtual node returns the
\* peer of K[0], on a ring whose last virtual node belongs to another peer
C13_Witness ==
    /\ ringRes.out = "return"
    /\ Len(peers.keys) > 0
    /\ \A x \in RingHashes(peers) : x < hashFn[ringRes.key]
    /\ ringRes.peer = peers.hashMap[peers.keys[1]]
    /\ ringRes.peer # peers.hashMap[peers.keys[Len(peers.keys)]]

\* C14: ring stability. For a peer p that is not in the ring and whose
\* virtual-node hashes collide with no hash on it, Add(p) followed by
\* Remove(p) leaves K and M as they were, so that Get(k) returns for every
\* key the peer it returned before the Add.
C14_RingStability ==
    /\ ringRes.out # "panic"
    /\ (trip.peer # Nil /\ ~trip.collided) =>
          (trip.sameKeys /\ trip.sameMap /\ trip.sameGet)

\* C14 witness: such an Add and Remove on a ring that holds another peer
C14_Witness ==
    /\ trip.peer # Nil /\ ~trip.collided
    /\ members # {} /\ Len(peers.keys) = Replicas
    /\ trip.sameGet

\* C18 as stated: after Add calls with distinct peers and Remove calls on
\* peers in the ring, for any hash function, K is sorted ascending, |K| is r
\* times the number of peers in the ring, and every hash in K is a key of M
\* bound to a peer that is in the ring.
C18_Original ==
    /\ \A i \in 1 .. (Len(peers.keys) - 1) : peers.keys[i] <= peers.keys[i + 1]
    /\ Len(peers.keys) = Replicas * Cardinality(members)
    /\ \A h \in RingHashes(peers) : peers.hashMap[h] \in members

(***************************************************************************)
(* The HTTP handler on its own                                             *)
(***************************************************************************)

InitServe == InitSF /\ InitNoLRU /\ InitNoGroup /\ InitNoPool

NextServe ==
    \/ \E name \in GroupNames : NewGroup(name)
    \/ \E path \in RequestPaths : \E r \in LoaderResults : ServeHTTP(path, r)

SpecServe == InitServe /\ [][NextServe]_vars

(***************************************************************************)
(* Claims about ServeHTTP (checked under SpecServe)                        *)
(***************************************************************************)

\* C15 as stated: when the namespace parsed from the path is not registered,
\* the handler answers with exactly one 404 and stops: it does not call
\* Group.Get, writes no further status or body, and does not crash, whatever
\* the key, the empty key included.
C15_Original ==
    (serveRes.group # Nil /\ ~serveRes.found) =>
        /\ serveRes.out = "return"
        /\ serveRes.getCalls = 0
        /\ serveRes.writes = <<ErrorWrite(404)>>

====
